---- MODULE Spec2Model ----
(***************************************************************************)
(* chanserv.py: the pending-action queue of the /cs command.               *)
(*                                                                         *)
(* State: the module-level registries of chanserv.py (pending, users,      *)
(* bans, quiets, collecting_bans), the timers registered with              *)
(* xchat.hook_timer, and the wall clock read through time.time().          *)
(* One action per hook: the /cs command, the server-event handlers and the *)
(* timer callback; plus the passage of time.                               *)
(*                                                                         *)
(* Strings are kept as strings where the code only compares them; where    *)
(* the code takes a string apart or builds one (masks, rendered commands,  *)
(* command templates) the parts are kept as a tuple or a record.           *)
(***************************************************************************)
EXTENDS Integers, Sequences, FiniteSets, TLC

\* ------------------------------------------------------------------ bounds
MaxActions == 3      \* /cs commands typed in one run
MaxTime == 11        \* the clock stops ticking past this value
MaxBans == 1         \* entries streamed into one ban or quiet list

\* ------------------------------------------------------- program constants
Timeout == 10        \* run_pending: p.stamp < now - 10
CacheTTL == 10       \* resolve_nick: users[nick].time < time.time() - 10

\* --------------------------------------------------------------- alphabets
None == "None"            \* Python's None ('%s' % None renders "None")
NoAttr == "<no attribute>" \* an attribute that was never assigned
NoChannel == "<none>"     \* run_pending(just_opped = None)

Channels == {"#a", "#b"}
Nicks == {"alice", "bob", "carol"}           \* keys of the users cache (lower case)
NickTargets == {"alice", "Bob", "carol"}     \* nicknames as the user types them
MaskTargets == {"*!*@h1"}             \* targets that are complete masks
TickSteps == {10, 11}                 \* seconds that pass between two events
BanEntries == {<<"*", "*", "h1">>, <<"bob", "*", "*">>}

\* str.lower()
Lower(t) == CASE t = "Bob" -> "bob" [] OTHER -> t

\* _valid_nickname / _valid_mask on the targets of the model
valid_nickname(t) == t \in NickTargets \cup Nicks \cup {""}
valid_mask(t) == t \in MaskTargets

\* re.split('[!@]', target) of a complete mask
MaskParts(t) == CASE t = "*!*@h1" -> <<"*", "*", "h1">> [] OTHER -> <<t>>

\* 'gateway/' in target_host
IsGateway(h) == h = "gateway/web"

\* what the server knows of a nickname
HostOf(n) == CASE n = "alice" -> "h1" [] n = "carol" -> "h2" [] OTHER -> "gateway/web"
IdentOf(n) == CASE n = "alice" -> "al" [] n = "carol" -> "ca" [] OTHER -> "bo"
NameOf(n) == CASE n = "alice" -> "Al Ice" [] n = "carol" -> "Carol" [] OTHER -> "Bob"

\* the account a nickname is logged in to (None: not logged in, the server
\* sends no 330 for it)
AccountOf(n) == CASE n = "carol" -> "carol_acct" [] OTHER -> None

\* re.sub('[^a-zA-Z0-9]', '?', name)
Bannable(name) == CASE name = "Al Ice" -> "Al?Ice" [] OTHER -> name

\* the /cs command lines of the model: the window they are typed in, the
\* command, the target, the -nihra flags and the -t<seconds> flag
Req(ch, c, t, b, tm) ==
    [channel |-> ch, command |-> c, target |-> t, bans |-> b, timer |-> tm]

\* what the user types in one run: one of these sets of command lines
Sessions ==
    { { Req("#a", "mode", "+m", {}, 0), Req("#a", "ban", "Bob", {}, 0) },
      { Req("#a", "ban", "alice", {}, 600), Req("#a", "kickban", "alice", {}, 5) },
      { Req("#a", "unban", "Bob", {}, 0) },
      { Req("#a", "mode", "+m", {}, 0), Req("#b", "ban", "alice", {}, 0) },
      { Req("#a", "bans", "alice", {}, 0) },
      { Req("#a", "ban", "carol", {"a"}, 0) } }

\* the nicknames (as keys of the cache) and the channels a session speaks of
NicksOf(reqs) == { Lower(r.target) : r \in reqs } \cap Nicks
ChannelsOf(reqs) == { r.channel : r \in reqs }

kick_commands == {"kick", "kickban"}
ban_commands == {"ban", "mute", "kickban"}

VARIABLES
    pending,          \* the event queue: a sequence of Action records
    users,            \* the /whois cache: nick -> User record
    bans,             \* channel -> collected ban entries
    quiets,           \* channel -> collected quiet entries
    collecting_bans,  \* channels whose lists are being collected (a list)
    timers,           \* registered hook_timer callbacks: [at, action]
    now,              \* time.time()
    nextId,           \* the next Action created by /cs gets this identity
    cmds,             \* context.command calls of the last handler, in order
    hist,             \* per Action: how often admitted, run, removed
    asked,            \* the nicks with a whois request sent and no reply yet
    last,             \* what the last handler did
    session           \* the command lines the user types in this run

vars == <<pending, users, bans, quiets, collecting_bans, timers, now, nextId,
          cmds, hist, asked, last, session>>

Ids == 1 .. (2 * MaxActions)     \* i + MaxActions is the reversal of Action i

\* ------------------------------------------------------------------ helpers
Range(s) == { s[i] : i \in 1 .. Len(s) }

RemoveAt(s, i) == SubSeq(s, 1, i - 1) \o SubSeq(s, i + 1, Len(s))

\* list.remove(x): the first occurrence
RemoveFirst(s, x) ==
    IF x \notin Range(s) THEN s
    ELSE RemoveAt(s, CHOOSE i \in 1 .. Len(s) : s[i] = x /\ \A j \in 1 .. (i - 1) : s[j] # x)

\* a rendered protocol command; id is the Action it was issued for (0: none)
Cmd(c, ch, sg, md, mk, id) ==
    [cmd |-> c, channel |-> ch, sign |-> sg, mode |-> md, mask |-> mk, id |-> id]

\* a command template of Action.actions
Tpl(k, sg, f, mk) == [kind |-> k, sign |-> sg, field |-> f, mask |-> mk]

\* the working state of a handler
Machine ==
    [pending |-> pending, users |-> users, bans |-> bans, quiets |-> quiets,
     collecting_bans |-> collecting_bans, timers |-> timers, now |-> now,
     cmds |-> <<>>, hist |-> hist, asked |-> asked,
     raised |-> FALSE, swept |-> FALSE, opped |-> NoChannel, ready |-> <<>>,
     ran |-> <<>>, purged |-> {}, reasked |-> {}, admitted |-> 0,
     rejected |-> FALSE, notfound |-> None]

Issue(s, c) == [s EXCEPT !.cmds = Append(@, c)]

Raise(s) == [s EXCEPT !.raised = TRUE]

\* ------------------------------------------------------------ class Action
NewAction(id, channel, t) ==
    [id |-> id, channel |-> channel, stamp |-> t,
     deop |-> TRUE, needs_op |-> TRUE, am_op |-> FALSE,
     do_ban |-> FALSE, do_unban |-> FALSE, do_bans |-> FALSE,
     banmode |-> "b", bans |-> {}, actions |-> <<>>, resolved |-> TRUE,
     target |-> "", timer |-> 0,
     target_nick |-> NoAttr, target_ident |-> NoAttr, target_host |-> NoAttr,
     target_name |-> NoAttr, target_name_bannable |-> NoAttr,
     target_account |-> NoAttr]

\* mutant of IsStale: every cached entry counts as too old
IsStale_Always(u, t) == TRUE

\* mutant of IsStale: a cached entry never counts as too old
IsStale_Never(u, t) == FALSE

\* users[nick].time < time.time() - 10
IsStale(u, t) == u.time < t - CacheTTL

\* mutant of GatewaySwap: the host template is kept for gateway hosts
GatewaySwap_None(p) == p

\* the gateway substitution of resolve_nick
GatewaySwap(p) ==
    IF IsGateway(p.target_host) /\ p.bans = {"h"} /\ p.do_ban
    THEN [p EXCEPT !.actions =
             SelectSeq(Append(@, Tpl("ban", "+", "g", <<>>)),
                       LAMBDA a : a # Tpl("ban", "+", "h", <<>>))]
    ELSE p

\* Action.resolve_nick on pending[i]
resolve_nick(s, i, request) ==
    LET p == s.pending[i]
        cleared == [p EXCEPT !.target_nick = None, !.target_ident = None,
                             !.target_host = None, !.target_name = None,
                             !.target_account = None, !.resolved = FALSE]
        nick == Lower(p.target)
        named == [cleared EXCEPT !.target_nick = nick]
        whois == Cmd("whois", "", "", "", <<nick>>, p.id)
        Ask(m) == [Issue(m, whois) EXCEPT
                      !.reasked = IF nick \in m.asked THEN @ \cup {nick} ELSE @,
                      !.asked = @ \cup {nick}]
    IN  IF valid_mask(p.target)
        THEN [s EXCEPT !.pending[i] =
                 [cleared EXCEPT !.target_nick = MaskParts(p.target)[1],
                                 !.target_host = MaskParts(p.target)[3],
                                 !.resolved = TRUE]]
        ELSE IF nick \in DOMAIN s.users
        THEN IF IsStale(s.users[nick], s.now)
             THEN LET s1 == [s EXCEPT !.pending[i] = named,
                                      !.users = [n \in (DOMAIN s.users) \ {nick} |-> s.users[n]],
                                      !.purged = @ \cup {nick}]
                  IN  IF request THEN Ask(s1) ELSE s1
             ELSE LET u == s.users[nick]
                  IN  [s EXCEPT !.pending[i] =
                          GatewaySwap([named EXCEPT
                              !.target_ident = u.ident, !.target_host = u.host,
                              !.target_name = u.name,
                              !.target_name_bannable = Bannable(u.name),
                              !.target_account = u.account, !.resolved = TRUE])]
        ELSE LET s1 == [s EXCEPT !.pending[i] = named]
             IN  IF request THEN Ask(s1) ELSE s1

\* Action.fetch_bans on pending[i]
fetch_bans(s, i) ==
    LET c == s.pending[i].channel
    IN  Issue([s EXCEPT !.bans[c] = <<>>, !.quiets[c] = <<>>,
                        !.collecting_bans = Append(@, c)],
              Cmd("mode", c, "+", "bq", <<>>, s.pending[i].id))

\* ban2re(pattern).match(text) for one component: '*' or a literal
Glob(pattern, text) == pattern = "*" \/ pattern = text

\* mutant of match: every collected entry counts as a match
match_All(p, ban) == TRUE

\* Action.match
match(p, ban) ==
    IF ban[1] = "$r" /\ p.target_name \notin {None, ""}
    THEN Glob(ban[2], p.target_name)
    ELSE IF ban[1] = "$a" /\ p.target_account \notin {None, ""}
    THEN Glob(ban[2], p.target_account)
    ELSE /\ Len(ban) = 3
         /\ Glob(ban[1], p.target_nick)
         /\ Glob(ban[2], p.target_ident)
         /\ Glob(ban[3], p.target_host)

\* template % kwargs
Render(a, p) ==
    CASE a.kind = "remove" -> Cmd("remove", p.channel, "", "", <<p.target_nick>>, p.id)
      [] a.kind = "chanmode" -> Cmd("MODE", p.channel, a.sign, a.field, <<>>, p.id)
      [] a.kind = "lit" -> Cmd("mode", p.channel, a.sign, a.field, a.mask, p.id)
      [] OTHER ->
           Cmd("mode", p.channel, a.sign, p.banmode,
               CASE a.field = "n" -> <<p.target_nick, "*", "*">>
                 [] a.field = "i" -> <<"*", p.target_ident, "*">>
                 [] a.field = "h" -> <<"*", "*", p.target_host>>
                 [] a.field = "r" -> <<"$r", p.target_name_bannable>>
                 [] a.field = "a" -> <<"$a", p.target_account>>
                 [] a.field = "g" -> <<"*", p.target_ident, "gateway/*">>
                 [] OTHER -> IF valid_mask(p.target) THEN MaskParts(p.target)
                             ELSE <<p.target>>,
               p.id)

\* x.replace('+', '-', 1) on a template
Invert(a) == IF a.sign = "+" THEN [a EXCEPT !.sign = "-"] ELSE a

\* mutant of Remove: the Action stays in the queue
Remove_Keeps(q, i) == q

\* pending.remove(self) / pending.remove(p)
Remove(q, i) == RemoveAt(q, i)

\* mutant of Reversal: the reversal inherits the delay of the Action it undoes
Reversal_KeepsTimer(p, deop, t) ==
    [NewAction(p.id + MaxActions, p.channel, t) EXCEPT
        !.deop = deop, !.timer = p.timer,
        !.actions = [k \in 1 .. Len(p.actions) |-> Invert(p.actions[k])],
        !.target = p.target_nick, !.target_nick = p.target_nick,
        !.target_ident = p.target_ident, !.target_host = p.target_host,
        !.target_name = p.target_name,
        !.target_name_bannable = p.target_name_bannable,
        !.target_account = p.target_account,
        !.resolved = TRUE, !.banmode = p.banmode]

\* the reversal Action built by done()
Reversal(p, deop, t) ==
    [NewAction(p.id + MaxActions, p.channel, t) EXCEPT
        !.deop = deop,
        !.actions = [k \in 1 .. Len(p.actions) |-> Invert(p.actions[k])],
        !.target = p.target_nick, !.target_nick = p.target_nick,
        !.target_ident = p.target_ident, !.target_host = p.target_host,
        !.target_name = p.target_name,
        !.target_name_bannable = p.target_name_bannable,
        !.target_account = p.target_account,
        !.resolved = TRUE, !.banmode = p.banmode]

\* mutant of KeepOp: nothing that is queued holds the operator status
KeepOp_Never(q, p) == FALSE

\* done(): a queued Action needs the operator status in the channel of p, or
\* has its deop flag cleared (Python reads `a and b or not c` as
\* `(a and b) or (not c)`)
KeepOp(q, p) ==
    \E k \in 1 .. Len(q) :
        \/ (q[k].channel = p.channel /\ q[k].needs_op)
        \/ ~q[k].deop

\* Action.done on pending[i]; by: "run" or "timeout"; due: whether the
\* Action had all it needed to run when it was finished
done(s, i, by, due) ==
    LET p == s.pending[i]
        s1 == [s EXCEPT !.pending = Remove(@, i),
                        !.hist[p.id].removed = @ + 1,
                        !.hist[p.id].by = by,
                        !.hist[p.id].due = due]
        deop == IF KeepOp(s1.pending, p) THEN FALSE ELSE p.deop
        s2 == IF deop THEN Issue(s1, Cmd("chanserv deop", p.channel, "", "", <<>>, p.id))
              ELSE s1
    IN  IF ~p.am_op \/ ~p.needs_op THEN s1
        ELSE IF p.timer = 0 THEN s2
        ELSE IF p.target_name_bannable = NoAttr THEN Raise(s2)
        ELSE [s2 EXCEPT !.timers =
                 @ \cup {[at |-> s.now + p.timer, action |-> Reversal(p, deop, s.now)]}]

\* the removal commands Action.run appends for the entries that match
Removals(p, entries, letter) ==
    LET hit == SelectSeq(entries, LAMBDA b : match(p, b))
    IN  [k \in 1 .. Len(hit) |-> Tpl("lit", "-", letter, hit[k])]

RECURSIVE IssueAll(_, _, _, _)
IssueAll(s, p, acts, k) ==
    IF k > Len(acts) THEN s ELSE IssueAll(Issue(s, Render(acts[k], p)), p, acts, k + 1)

\* Action.run on pending[i]
run(s, i) ==
    LET p == s.pending[i]
        acts == IF p.do_unban
                THEN p.actions \o Removals(p, s.bans[p.channel], "b")
                               \o Removals(p, s.quiets[p.channel], "q")
                ELSE p.actions
        s1 == [s EXCEPT !.pending[i].actions = acts,
                        !.hist[p.id].ran = @ + 1,
                        !.hist[p.id].ranUnresolved = @ \/ ~p.resolved,
                        !.hist[p.id].ranLate = @ \/ p.stamp < s.now - Timeout,
                        !.ran = Append(@, p)]
    IN  done(IssueAll(s1, p, acts, 1), i, "run", TRUE)

\* mutant of IsTimedOut: the age limit is never applied
IsTimedOut_Never(p, t) == FALSE

\* run_pending: p.stamp < now - 10
IsTimedOut(p, t) == p.stamp < t - Timeout

\* mutant of IsReady: the resolved flag is not looked at
IsReady_Unresolved(p, collecting) ==
    /\ ~(p.channel \in Range(collecting) /\ (p.do_unban \/ p.do_bans))
    /\ (p.am_op \/ ~p.needs_op)

\* run_pending: can_run and p.resolved and (p.am_op or not p.needs_op)
IsReady(p, collecting) ==
    /\ ~(p.channel \in Range(collecting) /\ (p.do_unban \/ p.do_bans))
    /\ p.resolved
    /\ (p.am_op \/ ~p.needs_op)

\* the body of run_pending's loop for the iterator at position i
RECURSIVE run_loop(_, _, _)
run_loop(s, i, just_opped) ==
    IF s.raised \/ i > Len(s.pending) THEN s
    ELSE
      LET s1 == IF s.pending[i].channel = just_opped
                THEN [s EXCEPT !.pending[i].am_op = TRUE] ELSE s
      IN  IF s1.pending[i].target_nick = NoAttr THEN Raise(s1)
          ELSE
            LET s2 == IF s1.pending[i].target_nick \in DOMAIN s1.users
                         /\ ~s1.pending[i].resolved
                      THEN resolve_nick(s1, i, FALSE) ELSE s1
                p == s2.pending[i]
            IN  IF IsTimedOut(p, s.now)
                THEN run_loop(done(s2, i, "timeout", IsReady(p, s2.collecting_bans)),
                              i + 1, just_opped)
                ELSE IF IsReady(p, s2.collecting_bans)
                THEN run_loop(run(s2, i), i + 1, just_opped)
                ELSE run_loop(s2, i + 1, just_opped)

\* the identities of the queued Actions that are due as a sweep starts: within
\* the age limit, resolved, their lists collected, and operator (or about to
\* be marked so for just_opped) where they need it; in queue order
DueIds(s, just_opped) ==
    LET due == SelectSeq(s.pending, LAMBDA p :
                   /\ ~(p.stamp < s.now - Timeout)
                   /\ p.resolved
                   /\ ~(p.channel \in Range(s.collecting_bans) /\ (p.do_unban \/ p.do_bans))
                   /\ (p.am_op \/ ~p.needs_op \/ p.channel = just_opped))
    IN  [k \in 1 .. Len(due) |-> due[k].id]

run_pending(s, just_opped) ==
    run_loop([s EXCEPT !.swept = TRUE, !.opped = just_opped,
                       !.ready = DueIds(s, just_opped)], 1, just_opped)

\* Action.schedule for the Action a; isop: the user list shows me with '@'
schedule(s, a, isop) ==
    LET a1 == [a EXCEPT !.am_op = isop, !.deop = IF isop THEN FALSE ELSE @]
        s1 == [s EXCEPT !.pending = Append(@, a1), !.hist[a.id].admitted = @ + 1,
                        !.admitted = a.id]
        i == Len(s1.pending)
        s2 == IF a1.needs_op /\ ~a1.am_op
              THEN Issue(s1, Cmd("chanserv op", a1.channel, "", "", <<>>, a1.id)) ELSE s1
        s3 == IF a1.do_ban \/ a1.do_unban \/ a1.do_bans
              THEN resolve_nick(s2, i, TRUE)
              ELSE [s2 EXCEPT !.pending[i].target_nick = a1.target]
        s4 == IF a1.do_unban \/ a1.do_bans THEN fetch_bans(s3, i) ELSE s3
    IN  IF ("a" \in a1.bans \/ "r" \in a1.bans) /\ valid_mask(a1.target)
        THEN [s2 EXCEPT !.rejected = TRUE]
        ELSE run_pending(s4, NoChannel)

\* the templates cs() appends for the ban dimensions, in the order n i h r a f
BanTemplates(dims) ==
    LET order == <<"n", "i", "h", "r", "a", "f">>
        chosen == SelectSeq(order, LAMBDA d : d \in dims)
    IN  [k \in 1 .. Len(chosen) |-> Tpl("ban", "+", chosen[k], <<>>)]

\* mutant of NeedsOp: showing the bans asks for the operator status too
NeedsOp_Always(command) == TRUE

\* cs(): action.needs_op stays True except for /cs bans
NeedsOp(command) == command # "bans"

\* cs(): the Action built for a command line; accepted is FALSE where cs()
\* reports an error and returns before schedule()
ParseCs(id, channel, req, t) ==
    LET a0 == NewAction(id, channel, t)
        isban == req.command \in ban_commands
        dims0 == IF isban THEN req.bans ELSE {}
        dims == IF valid_mask(req.target) THEN {"f"}
                ELSE IF dims0 = {} THEN {"h"} ELSE dims0
        kick == IF req.command \in kick_commands
                THEN <<Tpl("remove", "", "", <<>>)>> ELSE <<>>
    IN  IF req.command = "mode"
        THEN [accepted |-> TRUE,
              action |-> [a0 EXCEPT !.actions = <<Tpl("chanmode", "+", "m", <<>>)>>]]
        ELSE IF dims0 # {} /\ ~valid_nickname(req.target)
        THEN [accepted |-> FALSE, action |-> a0]
        ELSE [accepted |-> TRUE,
              action |-> [a0 EXCEPT
                  !.timer = IF isban THEN req.timer ELSE 0,
                  !.bans = dims,
                  !.target = req.target,
                  !.banmode = IF req.command = "mute" THEN "q" ELSE "b",
                  !.do_ban = isban,
                  !.actions = IF isban THEN kick \o BanTemplates(dims) ELSE kick,
                  !.do_unban = (req.command = "unban"),
                  !.do_bans = (req.command = "bans"),
                  !.needs_op = NeedsOp(req.command)]]

\* do_endwas: the loop over pending with the iterator at position i
RECURSIVE endwas_loop(_, _, _)
endwas_loop(s, i, nick) ==
    IF i > Len(s.pending) THEN s
    ELSE IF s.pending[i].target = nick
    THEN endwas_loop([s EXCEPT !.pending = Remove(@, i),
                               !.hist[s.pending[i].id].removed = @ + 1,
                               !.hist[s.pending[i].id].by = "endwas"],
                     i + 1, nick)
    ELSE endwas_loop(s, i + 1, nick)

\* ---------------------------------------------------------------- actions
\* swept: run_pending was called; done: it returned (no exception); opped:
\* its just_opped; ready: DueIds as it started; ran: the Actions it ran, as
\* they were when run() was entered; purged: the cache entries the handler
\* deleted; reasked: the nicks it sent a whois for while an earlier one was
\* unanswered; admitted: the Action it appended to pending (0: none);
\* rejected: schedule() printed "Invalid argument ... for account/realname
\* ban"; notfound: the nickname of the 406 reply it handled
Summary(s) ==
    [swept |-> s.swept, done |-> s.swept /\ ~s.raised, opped |-> s.opped,
     ready |-> s.ready, ran |-> s.ran, purged |-> s.purged,
     reasked |-> s.reasked, admitted |-> s.admitted,
     rejected |-> s.rejected, notfound |-> s.notfound]

\* what a handler leaves behind
Commit(s) ==
    /\ pending' = s.pending
    /\ users' = s.users
    /\ bans' = s.bans
    /\ quiets' = s.quiets
    /\ collecting_bans' = s.collecting_bans
    /\ timers' = s.timers
    /\ cmds' = s.cmds
    /\ hist' = s.hist
    /\ asked' = s.asked
    /\ last' = Summary(s)
    /\ UNCHANGED session

Init ==
    /\ pending = <<>>
    /\ users = <<>>
    /\ bans = [c \in Channels |-> <<>>]
    /\ quiets = [c \in Channels |-> <<>>]
    /\ collecting_bans = <<>>
    /\ timers = {}
    /\ now = 0
    /\ nextId = 1
    /\ cmds = <<>>
    /\ hist = [i \in Ids |-> [admitted |-> 0, ran |-> 0, removed |-> 0, by |-> "",
                              due |-> FALSE, ranUnresolved |-> FALSE,
                              ranLate |-> FALSE, sawEnd |-> FALSE]]
    /\ asked = {}
    /\ last = Summary(Machine)
    /\ session \in Sessions

\* the user types /cs <command> ... in the window of a channel
Cs ==
    \E req \in session, isop \in BOOLEAN :
        LET parsed == ParseCs(nextId, req.channel, req, now)
            s == schedule(Machine, parsed.action, isop)
        IN  /\ nextId <= MaxActions
            /\ parsed.accepted
            /\ nextId' = nextId + 1
            /\ now' = now
            /\ Commit(s)

\* a timer registered by done() fires: action.schedule()
FireTimer ==
    \E t \in timers, isop \in BOOLEAN :
        LET m == [Machine EXCEPT !.timers = @ \ {t}, !.now = t.at]
            s == schedule(m, t.action, isop)
        IN  /\ \A u \in timers : u.at >= t.at
            /\ now' = t.at
            /\ UNCHANGED nextId
            /\ Commit(s)

\* MODE: chanserv gave +o to me in a channel
do_mode ==
    \E channel \in ChannelsOf(session) :
        /\ UNCHANGED <<now, nextId>>
        /\ Commit(run_pending(Machine, channel))

\* 311 / 314: the primary whois (or whowas) reply for a nickname
do_whois ==
    \E nick \in asked :
        /\ UNCHANGED <<now, nextId>>
        /\ Commit([Machine EXCEPT !.users =
                      [n \in DOMAIN users \cup {nick} |->
                          IF n = nick
                          THEN [ident |-> IdentOf(nick), host |-> HostOf(nick),
                                name |-> NameOf(nick), account |-> None, time |-> now]
                          ELSE users[n]],
                      !.asked = @ \ {nick}])

\* 330: the account line of a whois reply, sent after the 311 for a nickname
\* that is logged in
do_whois_account ==
    \E nick \in DOMAIN users :
        /\ AccountOf(nick) # None
        /\ users[nick].account = None
        /\ UNCHANGED <<now, nextId>>
        /\ Commit([Machine EXCEPT !.users[nick].account = AccountOf(nick)])

\* 406: whowas found nothing either
do_endwas ==
    \E nick \in { r.target : r \in session } \cup NicksOf(session) :
        /\ Lower(nick) \in asked
        /\ UNCHANGED <<now, nextId>>
        /\ Commit(endwas_loop([Machine EXCEPT !.asked = @ \ {Lower(nick)},
                                             !.notfound = nick], 1, nick))

\* 318 / 369: end of whois, end of whowas
endofwhois ==
    /\ UNCHANGED <<now, nextId>>
    /\ Commit(run_pending(Machine, NoChannel))

\* 367: one entry of the ban list
do_ban ==
    \E channel \in Channels, b \in BanEntries :
        /\ channel \in Range(collecting_bans)
        /\ Len(bans[channel]) < MaxBans
        /\ UNCHANGED <<now, nextId>>
        /\ Commit([Machine EXCEPT !.bans[channel] = Append(@, b)])

\* 728: one entry of the quiet list
do_quiet ==
    \E channel \in Channels, b \in BanEntries :
        /\ channel \in Range(collecting_bans)
        /\ Len(quiets[channel]) < MaxBans
        /\ UNCHANGED <<now, nextId>>
        /\ Commit([Machine EXCEPT !.quiets[channel] = Append(@, b)])

\* 368: end of the ban list
do_endban ==
    \E channel \in Channels :
        /\ channel \in Range(collecting_bans)
        /\ UNCHANGED <<now, nextId>>
        /\ Commit(Machine)

\* 729: end of the quiet list
do_endquiet ==
    \E channel \in Channels :
        /\ channel \in Range(collecting_bans)
        /\ UNCHANGED <<now, nextId>>
        /\ LET m == [Machine EXCEPT
                        !.collecting_bans = RemoveFirst(@, channel),
                        !.hist = [i \in Ids |->
                            IF \E k \in 1 .. Len(pending) :
                                   pending[k].id = i /\ pending[k].channel = channel
                            THEN [@[i] EXCEPT !.sawEnd = TRUE] ELSE @[i]]]
           IN  Commit(run_pending(m, NoChannel))

\* time passes between two events; a registered timer fires when it is due
Tick ==
    \E d \in TickSteps :
        /\ now + d <= MaxTime
        /\ \A t \in timers : t.at >= now + d
        /\ now' = now + d
        /\ cmds' = <<>>
        /\ last' = Summary([Machine EXCEPT !.now = now + d])
        /\ UNCHANGED <<pending, users, bans, quiets, collecting_bans, timers,
                       nextId, hist, asked, session>>

Next ==
    \/ Cs
    \/ FireTimer
    \/ do_mode
    \/ do_whois
    \/ do_whois_account
    \/ do_endwas
    \/ endofwhois
    \/ do_ban
    \/ do_quiet
    \/ do_endban
    \/ do_endquiet
    \/ Tick

Spec == Init /\ [][Next]_vars

\* the Actions schedule() turns down: an account or realname dimension with a
\* complete mask (no $a: / $r: prefix) as the target. cs() never builds one
\* (it reports "Ban types and lart can only be used with nicks" first), so
\* they reach schedule() only from a caller other than cs().
InvalidActions(id, t) ==
    { [NewAction(id, ch, t) EXCEPT
          !.bans = {d}, !.target = m, !.do_ban = TRUE,
          !.actions = BanTemplates({d})] :
      ch \in {"#a"}, d \in {"a"}, m \in MaskTargets }

\* Action.schedule() called on such an Action
Admit ==
    \E a \in InvalidActions(nextId, now), isop \in BOOLEAN :
        /\ nextId <= MaxActions
        /\ nextId' = nextId + 1
        /\ now' = now
        /\ Commit(schedule(Machine, a, isop))

NextAdmit ==
    \/ Next
    \/ Admit

SpecAdmit == Init /\ [][NextAdmit]_vars

\* ------------------------------------------------------------------ claims
WaitsForNick(p) == p.do_ban \/ p.do_unban \/ p.do_bans

Queued == Range(pending)

\* run_pending as the queue discipline describes it: due means within the age
\* limit with everything the Action waits for present
Due(p) ==
    /\ ~(p.stamp < now - Timeout)
    /\ p.resolved
    /\ ~(p.channel \in Range(collecting_bans) /\ (p.do_unban \/ p.do_bans))
    /\ (p.am_op \/ ~p.needs_op)

RanIds == [k \in 1 .. Len(last.ran) |-> last.ran[k].id]

Position(seq, x) == CHOOSE k \in 1 .. Len(seq) : seq[k] = x

\* C1: no Action has ever entered run() with its resolved flag false; this
\* covers every Action that waits for its target (ban, unban, show bans).
C1_NeverRunUnresolved ==
    /\ \A i \in Ids : ~hist[i].ranUnresolved
    /\ \A k \in 1 .. Len(last.ran) : last.ran[k].resolved

\* C1 witness: an Action that had to wait for the whois reply has been run by
\* a later sweep, with the identity the cache held.
C1_Witness ==
    \E k \in 1 .. Len(last.ran) :
        /\ WaitsForNick(last.ran[k])
        /\ last.ran[k].stamp < now
        /\ last.admitted = 0
        /\ last.ran[k].target_nick \in Nicks
        /\ last.ran[k].target_host = HostOf(last.ran[k].target_nick)

\* C2: an Action finished by the timeout has issued none of its commands (it
\* never ran), and no Action ever ran at an age above the limit.
C2_TimedOutNeverRuns ==
    \A i \in Ids :
        /\ hist[i].by = "timeout" => hist[i].ran = 0
        /\ ~hist[i].ranLate

\* C2 witness: an Action was finished by the timeout at a moment it had all
\* it needed to run.
C2_Witness ==
    \E i \in Ids : hist[i].by = "timeout" /\ hist[i].due /\ hist[i].ran = 0

\* C3: every Action is admitted at most once, queued at most once, run at most
\* once and removed at most once; it is queued exactly from its admission to
\* its removal; one removed by the timeout or as not found never ran.
C3_OnceOnly ==
    \A i \in Ids :
        /\ hist[i].admitted <= 1 /\ hist[i].ran <= 1 /\ hist[i].removed <= 1
        /\ Cardinality({ k \in 1 .. Len(pending) : pending[k].id = i })
               = hist[i].admitted - hist[i].removed
        /\ hist[i].ran = 1 => hist[i].removed = 1 /\ hist[i].by = "run"
        /\ hist[i].by \in {"timeout", "endwas"} => hist[i].ran = 0

\* C3 witness: one Action removed by running, one by the timeout and one as
\* not found.
C3_Witness ==
    \E i, j, k \in Ids :
        /\ hist[i].by = "run" /\ hist[j].by = "timeout" /\ hist[k].by = "endwas"

\* C4 as claimed: when a sweep has returned, no queued Action is due.
C4_FullPass ==
    last.done => \A p \in Queued : ~Due(p)

\* C5 as claimed: of two Actions due as a sweep starts, the later admitted one
\* is run by that sweep only after the earlier one.
C5_AdmissionOrder ==
    last.done =>
        \A a, b \in 1 .. Len(last.ready) :
            (a < b /\ last.ready[b] \in Range(RanIds)) =>
                /\ last.ready[a] \in Range(RanIds)
                /\ Position(RanIds, last.ready[a]) < Position(RanIds, last.ready[b])

\* the positions in a command list c of the mode changes (channel modes, bans,
\* quiets; not the request for the lists) and of the whois requests for n
ModeCmds(c) ==
    { k \in 1 .. Len(c) : c[k].cmd \in {"mode", "MODE"} /\ c[k].mode # "bq" }

WhoisCmds(c) == { k \in 1 .. Len(c) : c[k].cmd = "whois" }

WhoisFor(c, n) == { k \in WhoisCmds(c) : c[k].mask = <<n>> }

OpRequests(c, id) ==
    { k \in 1 .. Len(c) : c[k].cmd = "chanserv op" /\ c[k].id = id }

\* a ban on the host alone, with no kick
HostOnlyBan(p) ==
    /\ p.do_ban /\ p.needs_op /\ p.bans = {"h"}
    /\ Len(p.actions) = 1 /\ p.actions[1].kind = "ban"

\* the cache holds an entry for n that is at most 10 seconds old at time t
FreshAt(n, t) == n \in DOMAIN users /\ ~(users[n].time < t - CacheTTL)

\* the cache holds an entry for n that is more than 10 seconds old at time t
StaleAt(n, t) == n \in DOMAIN users /\ users[n].time < t - CacheTTL

\* C6 as claimed: a step that admits a reversal into an empty queue while the
\* requester is operator (no op request is sent for it) runs the reversal: it
\* issues the inverted mode changes and no whois.
C6_ReversalStep ==
    LET r == last'.admitted
    IN  (pending = <<>> /\ r > MaxActions /\ OpRequests(cmds', r) = {}) =>
            /\ \E k \in 1 .. Len(last'.ran) : last'.ran[k].id = r
            /\ \E k \in ModeCmds(cmds') : cmds'[k].id = r /\ cmds'[k].sign = "-"
            /\ WhoisCmds(cmds') = {}

C6_ReversalExecutes == [][C6_ReversalStep]_vars

\* the Action a step has admitted, while it is still queued after the step
AdmittedQueued ==
    { q \in Range(pending') : q.id = last'.admitted /\ last'.admitted <= MaxActions }

\* C7, first half: admitting a host-only ban into an empty queue, for a
\* nickname with a fresh cache entry, while not operator, sends one op request
\* and no mode change and leaves the resolved Action alone in the queue.
C7_AdmitStep ==
    \A q \in AdmittedQueued :
        (/\ pending = <<>> /\ HostOnlyBan(q) /\ ~q.am_op
         /\ FreshAt(Lower(q.target), now')) =>
            /\ pending' = <<q>> /\ q.resolved
            /\ Cardinality(OpRequests(cmds', q.id)) = 1
            /\ ModeCmds(cmds') = {}
            /\ WhoisCmds(cmds') = {}

\* the premise of the second half: the resolved host-only ban is alone in the
\* queue, within the age limit, and this step handles the +o for its channel
GrantFor(p) ==
    /\ pending = <<p>> /\ HostOnlyBan(p) /\ ~p.am_op /\ p.resolved
    /\ ~(p.stamp < now - Timeout)
    /\ last'.swept /\ last'.opped = p.channel

\* the step issues exactly one mode change: the ban of p on mask
OneBan(p, mask) ==
    /\ pending' = <<>>
    /\ Cardinality(ModeCmds(cmds')) = 1
    /\ \A k \in ModeCmds(cmds') :
           cmds'[k] = Cmd("mode", p.channel, "+", p.banmode, mask, p.id)

\* C7 as claimed: the one mode change names the host the Action took from the
\* cache.
C7_GrantStepHost ==
    \A p \in Range(pending) :
        GrantFor(p) => OneBan(p, <<"*", "*", p.target_host>>)

C7_AsClaimed == [][C7_AdmitStep /\ C7_GrantStepHost]_vars

\* C7 as amended: the one mode change names the host the Action took from the
\* cache, or for a gateway host the cached ident with the host gateway/*.
C7_GrantStepMask ==
    \A p \in Range(pending) :
        GrantFor(p) =>
            OneBan(p, IF IsGateway(p.target_host)
                      THEN <<"*", p.target_ident, "gateway/*">>
                      ELSE <<"*", "*", p.target_host>>)

C7_PrivilegeScenario == [][C7_AdmitStep /\ C7_GrantStepMask]_vars

\* C7 witness: a host-only ban of a gateway user, admitted while not operator
\* (deop is still set) after the cache entry was stored, has been run by the
\* sweep of the +o and has emptied the queue.
C7_Witness ==
    /\ last.opped \in Channels /\ pending = <<>> /\ Len(last.ran) = 1
    /\ LET p == last.ran[1]
       IN  /\ HostOnlyBan(p) /\ p.deop /\ IsGateway(p.target_host)
           /\ p.target_nick \in DOMAIN users
           /\ users[p.target_nick].time < p.stamp
           /\ \E k \in ModeCmds(cmds) :
                  cmds[k].mask = <<"*", p.target_ident, "gateway/*">>

\* a collected entry accepts the identity of p: each of nick, ident and host is
\* the wildcard or the value itself
Accepts(entry, p) ==
    /\ Len(entry) = 3
    /\ entry[1] \in {"*", p.target_nick}
    /\ entry[2] \in {"*", p.target_ident}
    /\ entry[3] \in {"*", p.target_host}

\* the removal commands of the last handler: -b / -q issued for an Action
\* created by /cs (a reversal is not a removal)
RemovalCmds ==
    { k \in ModeCmds(cmds) : cmds[k].sign = "-" /\ cmds[k].id <= MaxActions }

\* C8: every removal command is issued by an unban Action that has seen the
\* end of the lists of its channel, with none of them still being collected,
\* and names a collected ban or quiet entry that accepts its target's
\* resolved identity; an unban Action issues nothing else but removals.
C8_RemovalsMatch ==
    /\ \A k \in RemovalCmds :
           \E j \in 1 .. Len(last.ran) :
               LET p == last.ran[j]
               IN  /\ p.id = cmds[k].id /\ p.do_unban /\ p.resolved
                   /\ hist[p.id].sawEnd
                   /\ p.channel \notin Range(collecting_bans)
                   /\ cmds[k].mask \in
                          IF cmds[k].mode = "b" THEN Range(bans[p.channel])
                          ELSE Range(quiets[p.channel])
                   /\ Accepts(cmds[k].mask, p)
    /\ \A j \in 1 .. Len(last.ran) :
           last.ran[j].do_unban =>
               \A k \in ModeCmds(cmds) :
                   cmds[k].id = last.ran[j].id => k \in RemovalCmds

\* C8 witness: an unban has removed a matching entry while an entry that does
\* not match its target is in the collected lists of the channel.
C8_Witness ==
    \E k \in RemovalCmds :
        \E j \in 1 .. Len(last.ran) :
            LET p == last.ran[j]
            IN  /\ p.id = cmds[k].id /\ p.do_unban
                /\ \E e \in Range(bans[p.channel]) \cup Range(quiets[p.channel]) :
                       ~Accepts(e, p)

\* C9 as claimed: no handler sends a whois for a nickname while an earlier
\* one is unanswered, and none while a fresh cache entry exists.
C9_NoWhoisWhileFresh ==
    \A k \in WhoisCmds(cmds') : ~FreshAt(cmds'[k].mask[1], now')

C9_WhoisStep ==
    /\ C9_NoWhoisWhileFresh
    /\ Cardinality(WhoisCmds(cmds')) <= 1
    /\ \A k \in WhoisCmds(cmds') :
           /\ cmds'[k].id = last'.admitted
           /\ \E q \in AdmittedQueued : cmds'[k].mask = <<Lower(q.target)>>
    /\ \A q \in AdmittedQueued :
           (/\ WaitsForNick(q) /\ ~valid_mask(q.target)
            /\ ~FreshAt(Lower(q.target), now')) =>
               Cardinality(WhoisFor(cmds', Lower(q.target))) = 1

AdmittedNicks ==
    { Lower(q.target) : q \in { r \in AdmittedQueued :
                                  WaitsForNick(r) /\ ~valid_mask(r.target) } }

\* C10 as claimed: every cache entry a handler discards as too old is
\* followed, in that handler, by exactly one whois for its nickname.
C10_AsClaimed ==
    \A n \in last.purged : n \notin DOMAIN users /\ Cardinality(WhoisFor(cmds, n)) = 1

\* C10 as amended: an entry older than 10 seconds is discarded by the next
\* resolution attempt (only such entries are discarded): the one made at
\* admission, which sends exactly one whois, or the re-check a sweep makes
\* for an unresolved Action it examines (the head of the queue is always
\* examined), which sends none.
C10_PurgeStep ==
    /\ \A n \in last'.purged :
           /\ StaleAt(n, now') /\ n \notin DOMAIN users'
           /\ Cardinality(WhoisFor(cmds', n)) = IF n \in AdmittedNicks THEN 1 ELSE 0
    /\ \A n \in AdmittedNicks : StaleAt(n, now') => n \in last'.purged
    /\ (/\ last'.swept /\ pending # <<>> /\ ~pending[1].resolved
         /\ StaleAt(pending[1].target_nick, now')) =>
            pending[1].target_nick \in last'.purged

C10_StaleEntryPurged == [][C10_PurgeStep]_vars

\* C10 witness: the last handler admitted an Action whose nickname had an
\* entry older than 10 seconds; the entry is gone and one whois was sent.
C10_Witness ==
    /\ last.admitted \in 1 .. MaxActions
    /\ \E n \in last.purged :
           n \notin DOMAIN users /\ Cardinality(WhoisFor(cmds, n)) = 1

\* C11 as claimed: a step in which schedule() reports the invalid argument
\* leaves the queue as it was, so the Action it was called on is not queued.
C11_RejectedStep ==
    last'.rejected =>
        /\ pending' = pending
        /\ \A k \in 1 .. Len(pending') : pending'[k].id # last'.admitted

TimersOf(i) == { t \in timers : t.action.id = i + MaxActions }

\* C12: a reversal carries no delay, whether it waits in a timer or in the
\* queue, and is never itself reversed; every Action has at most one reversal
\* (registered or admitted), and only once it has left the queue.
C12_OneShot ==
    /\ \A t \in timers : t.action.timer = 0 /\ t.action.id \in Ids \ (1 .. MaxActions)
    /\ \A p \in Queued : p.id \in Ids /\ (p.id > MaxActions => p.timer = 0)
    /\ \A i \in 1 .. MaxActions :
           /\ hist[i + MaxActions].admitted + Cardinality(TimersOf(i)) <= hist[i].removed
           /\ hist[i + MaxActions].admitted <= 1

\* C12 witness: a reversal has been admitted and has run, and no timer is left.
C12_Witness ==
    \E i \in 1 .. MaxActions :
        /\ hist[i].ran = 1 /\ hist[i + MaxActions].ran = 1 /\ timers = {}

\* C13 as claimed: when the sweep of a +o in channel c has returned, every
\* Action still queued for c is marked as operator.
C13_AllMarked ==
    (last.done /\ last.opped \in Channels) =>
        \A p \in Queued : p.channel = last.opped => p.am_op

\* the commands that give the operator status in channel c back
Releases(c, ch) == { k \in 1 .. Len(c) : c[k].cmd = "chanserv deop" /\ c[k].channel = ch }

\* C14 as claimed: a step that runs an Action which needs the operator status
\* and got it from chanserv (deop still set), with no other Action of its
\* channel queued before or after the step or run by it, sends the deop for
\* that channel, whatever is queued for other channels.
C14_ReleaseStep ==
    \A k \in 1 .. Len(last'.ran) :
        LET p == last'.ran[k]
            others == (Range(pending) \cup Range(pending') \cup Range(last'.ran))
        IN  (/\ p.needs_op /\ p.am_op /\ p.deop
             /\ \A q \in others : q.id # p.id => q.channel # p.channel) =>
                Releases(cmds', p.channel) # {}

C14_ReleaseIgnoresOtherChannels == [][C14_ReleaseStep]_vars

\* C15: no handler sends the deop for a channel and leaves an Action queued
\* that needs the operator status in that channel.
C15_NoReleaseWhileNeeded ==
    \A k \in 1 .. Len(cmds) :
        cmds[k].cmd = "chanserv deop" =>
            \A p \in Queued : ~(p.channel = cmds[k].channel /\ p.needs_op)

\* C15 witness: the deop was sent for an Action that ended by the timeout,
\* while an Action is queued for another channel.
C15_Witness ==
    \E k \in 1 .. Len(cmds) :
        /\ cmds[k].cmd = "chanserv deop"
        /\ hist[cmds[k].id].by = "timeout"
        /\ Queued # {}

\* how often channel c is in the list q
Count(q, c) == Cardinality({ k \in 1 .. Len(q) : q[k] = c })

\* C16 as claimed: a step that takes channel c out of collecting_bans (only
\* the end of the quiet list does) leaves no c in it.
C16_EndStep ==
    \A c \in Channels :
        Count(collecting_bans', c) < Count(collecting_bans, c) =>
            c \notin Range(collecting_bans')

C16_CollectionEnds == [][C16_EndStep]_vars

\* C17 as claimed: when the 406 reply for a nickname has been handled, no
\* Action with that target is queued.
C17_NotFoundRemovesAll ==
    last.notfound # None => \A p \in Queued : p.target # last.notfound

\* the user only asks to see bans in this run
ShowsBansOnly == \A r \in session : r.command = "bans"

\* C18: while the only Actions are show-bans Actions, every command sent is a
\* whois or the request for the lists; the Actions do not need the operator
\* status and have no command templates, before and after run().
C18_ShowBansFrame ==
    ShowsBansOnly =>
        /\ \A k \in 1 .. Len(cmds) :
               \/ cmds[k].cmd = "whois"
               \/ cmds[k] = Cmd("mode", cmds[k].channel, "+", "bq", <<>>, cmds[k].id)
        /\ \A p \in Queued \cup Range(last.ran) :
               p.do_bans /\ ~p.needs_op /\ p.actions = <<>> /\ p.timer = 0
        /\ timers = {}

\* C18 witness: a show-bans Action has run with an entry in the collected
\* lists that matches its target.
C18_Witness ==
    /\ ShowsBansOnly
    /\ \E k \in 1 .. Len(last.ran) :
           LET p == last.ran[k]
           IN  \E e \in Range(bans[p.channel]) \cup Range(quiets[p.channel]) :
                   Accepts(e, p)

\* C19 as claimed: a step that takes the last Action of channel c out of the
\* queue, with an Action of c holding the operator status that chanserv gave
\* (am_op with deop still set), sends the deop for c.
C19_RelinquishStep ==
    \A c \in Channels :
        (/\ \E p \in Range(pending) :
                p.channel = c /\ p.needs_op /\ p.am_op /\ p.deop
         /\ \A q \in Range(pending') : q.channel # c) =>
            Releases(cmds', c) # {}

C19_PrivilegeRelinquished == [][C19_RelinquishStep]_vars

\* C20 as claimed: an Action that never ran has no reversal: none registered
\* with a timer and none admitted.
C20_NoReversalUnlessRun ==
    \A i \in 1 .. MaxActions :
        hist[i].ran = 0 => TimersOf(i) = {} /\ hist[i + MaxActions].admitted = 0

\* C21 as claimed: every account ban a handler sends names the account the
\* server reported for the nickname.
C21_AccountDelivered ==
    \A k \in ModeCmds(cmds) :
        (Len(cmds[k].mask) = 2 /\ cmds[k].mask[1] = "$a") =>
            \E j \in 1 .. Len(last.ran) :
                /\ last.ran[j].id = cmds[k].id
                /\ cmds[k].mask[2] # None
                /\ cmds[k].mask[2] = AccountOf(last.ran[j].target_nick)

\* C22 as claimed: the remove command is sent for Actions created by /cs
\* only, never for a reversal.
C22_KickOnce ==
    \A k \in 1 .. Len(cmds) : cmds[k].cmd = "remove" => cmds[k].id <= MaxActions

====
